---- MODULE Spec2Model ----
(***************************************************************************)
(* pdf-creator: a browser tool that merges dropped images and PDFs into    *)
(* one PDF.  The module models                                             *)
(*   - PDFService.validateFile, createPDF, addImagesToDocument,            *)
(*     embedImageInPage, addPDFToPDF, chunkArray (services/pdfService.tsx) *)
(*   - the App component's state and handlers (App.tsx)                    *)
(*   - the option edits of the ImageLayout component.                      *)
(* Text (file names, media types, messages) is a sequence of strings that  *)
(* concatenates the way the template literals of the code do.  Lengths are *)
(* exact integers in units of 1/200 pt; the fitted image box is an exact   *)
(* rational with an explicit denominator (floating-point rounding of the   *)
(* JavaScript numbers is not modelled).                                    *)
(***************************************************************************)
EXTENDS Integers, Sequences, FiniteSets, TLC

VARIABLES files, isProcessing, layoutOptions, toast, calls, done, probe, answer

vars == <<files, isProcessing, layoutOptions, toast, calls, done, probe, answer>>

(***************************************************************************)
(* Text helpers (String.prototype methods used by the code)                *)
(***************************************************************************)
Max(a, b) == IF a >= b THEN a ELSE b
Min(a, b) == IF a <= b THEN a ELSE b

\* s.startsWith(p)
StartsWith(s, p) == Len(p) <= Len(s) /\ SubSeq(s, 1, Len(p)) = p

\* s.includes(p)
Includes(s, p) ==
    \E i \in 0..Len(s) : i + Len(p) <= Len(s) /\ SubSeq(s, i + 1, i + Len(p)) = p

\* s.lastIndexOf(c), 0-based, -1 when absent
LastIndexOf(s, c) ==
    IF \E i \in 1..Len(s) : s[i] = c
    THEN (CHOOSE i \in 1..Len(s) : s[i] = c /\ \A j \in (i + 1)..Len(s) : s[j] # c) - 1
    ELSE -1

\* s.slice(k): a negative k counts from the end
Slice(s, k) ==
    LET from == IF k < 0 THEN Max(Len(s) + k, 0) ELSE Min(k, Len(s))
    IN  SubSeq(s, from + 1, Len(s))

LowerChar(c) ==
    CASE c = "P" -> "p" [] c = "D" -> "d" [] c = "F" -> "f"
      [] c = "N" -> "n" [] c = "G" -> "g" [] c = "J" -> "j"
      [] OTHER -> c

\* s.toLowerCase()
ToLowerCase(s) == [i \in 1..Len(s) |-> LowerChar(s[i])]

(***************************************************************************)
(* Media types and file names                                              *)
(***************************************************************************)
TypeJpeg == <<"i","m","a","g","e","/","j","p","e","g">>
TypeJpg  == <<"i","m","a","g","e","/","j","p","g">>
TypePng  == <<"i","m","a","g","e","/","p","n","g">>
TypeGif  == <<"i","m","a","g","e","/","g","i","f">>
TypePdf  == <<"a","p","p","l","i","c","a","t","i","o","n","/","p","d","f">>
TypeText == <<"t","e","x","t","/","p","l","a","i","n">>

ImagePrefix == <<"i","m","a","g","e","/">>

Undefined == <<"<undefined>">>

\* MAX_FILE_SIZE = 100 * 1024 * 1024
MAX_FILE_SIZE == 104857600

supportedTypes == {TypeJpeg, TypeJpg, TypePng, TypePdf}

supportedExtensions ==
    { <<".","p","d","f">>, <<".","j","p","g">>, <<".","j","p","e","g">>,
      <<".","p","n","g">>, <<".","j","p","e">>, <<".","j","i","f">>,
      <<".","j","f","i","f">> }

\* the null / undefined File reference
NullFile ==
    [id |-> "null", name |-> Undefined, type |-> Undefined, size |-> 0,
     content |-> [kind |-> "null", width |-> 0, height |-> 0, pages |-> <<>>]]

fileExtension(file) == Slice(ToLowerCase(file.name), LastIndexOf(file.name, "."))

typeSupported(file) == file.type \in supportedTypes
extensionSupported(file) == fileExtension(file) \in supportedExtensions

NoError == <<>>

MsgTooLarge(file) == <<"File ">> \o file.name \o <<" is too large. Maximum size is 100MB">>
MsgNotSupported(file) ==
    <<"File ">> \o file.name \o <<" is not supported. Please use PDF, JPG, JPEG, or PNG files">>
MsgInvalidFile == <<"Invalid file provided">>

\* PDFService.validateFile: NoError stands for the null return
validateFileEither(file) ==
    IF file = NullFile THEN MsgInvalidFile
    ELSE IF file.size > MAX_FILE_SIZE THEN MsgTooLarge(file)
    ELSE IF ~typeSupported(file) /\ ~extensionSupported(file) THEN MsgNotSupported(file)
    ELSE NoError

validateFile(file) ==
    IF file = NullFile THEN MsgInvalidFile
    ELSE IF file.size > MAX_FILE_SIZE THEN MsgTooLarge(file)
    ELSE IF ~typeSupported(file) \/ ~extensionSupported(file) THEN MsgNotSupported(file)
    ELSE NoError

(***************************************************************************)
(* Geometry.  One unit is 1/200 pt, so that every halving below is exact   *)
(* for the even margins the model draws.                                   *)
(***************************************************************************)
Pt(n) == n * 200

\* PageSizes.A4 = [595.28, 841.89] (pdf-lib)
A4Width  == 119056
A4Height == 168378

Sides == {"top", "right", "bottom", "left"}

pageSizeSwapped(orientation) ==
    IF orientation = "landscape" THEN <<A4Width, A4Height>> ELSE <<A4Height, A4Width>>

\* addImagesToDocument: const pageSize = orientation === 'landscape' ? [A4[1], A4[0]] : A4
pageSize(orientation) ==
    IF orientation = "landscape" THEN <<A4Height, A4Width>> ELSE <<A4Width, A4Height>>

gridCols(imagesPerPage) == IF imagesPerPage = 4 THEN 2 ELSE 1
gridRows(imagesPerPage) == IF imagesPerPage = 1 THEN 1 ELSE 2


slotRectNoGutter(width, height, margins, imagesPerPage, i) ==
    LET cols == gridCols(imagesPerPage)
        rows == gridRows(imagesPerPage)
        contentWidth  == width - margins.left - margins.right
        contentHeight == height - margins.top - margins.bottom
        imageWidth  == contentWidth \div cols
        imageHeight == contentHeight \div rows
        row == i \div cols
        col == i % cols
    IN  [x |-> margins.left + col * (imageWidth + margins.right),
         y |-> height - margins.top - (row + 1) * imageHeight - row * margins.bottom,
         width |-> imageWidth, height |-> imageHeight]

\* the slot rectangle of slot i: addImagesToDocument, the body of the loops
slotRect(width, height, margins, imagesPerPage, i) ==
    LET cols == gridCols(imagesPerPage)
        rows == gridRows(imagesPerPage)
        contentWidth  == width - margins.left - margins.right
        contentHeight == height - margins.top - margins.bottom
        imageWidth  == (contentWidth - (cols - 1) * margins.right) \div cols
        imageHeight == (contentHeight - (rows - 1) * margins.bottom) \div rows
        row == i \div cols
        col == i % cols
    IN  [x |-> margins.left + col * (imageWidth + margins.right),
         y |-> height - margins.top - (row + 1) * imageHeight - row * margins.bottom,
         width |-> imageWidth, height |-> imageHeight]


\* no rectangle drawn
NoBox == [den |-> 1, x |-> 0, y |-> 0, width |-> 0, height |-> 0]

fitBoxCover(naturalWidth, naturalHeight, d) ==
    IF d.width * naturalHeight < d.height * naturalWidth
    THEN [den    |-> 2 * naturalHeight,
          width  |-> 2 * d.height * naturalWidth,
          height |-> 2 * naturalHeight * d.height,
          x      |-> 2 * naturalHeight * d.x + (d.width * naturalHeight - d.height * naturalWidth),
          y      |-> 2 * naturalHeight * d.y]
    ELSE [den    |-> 2 * naturalWidth,
          width  |-> 2 * naturalWidth * d.width,
          height |-> 2 * d.width * naturalHeight,
          x      |-> 2 * naturalWidth * d.x,
          y      |-> 2 * naturalWidth * d.y + (d.height * naturalWidth - d.width * naturalHeight)]

\* embedImageInPage, the fit: aspectRatio = w/h; width/height > aspectRatio
\* shrinks the width, otherwise the height; then the box is centered.
\* The result is the rational box (x, y, width, height) / den.
fitBox(naturalWidth, naturalHeight, d) ==
    IF d.width * naturalHeight > d.height * naturalWidth
    THEN [den    |-> 2 * naturalHeight,
          width  |-> 2 * d.height * naturalWidth,
          height |-> 2 * naturalHeight * d.height,
          x      |-> 2 * naturalHeight * d.x + (d.width * naturalHeight - d.height * naturalWidth),
          y      |-> 2 * naturalHeight * d.y]
    ELSE [den    |-> 2 * naturalWidth,
          width  |-> 2 * naturalWidth * d.width,
          height |-> 2 * d.width * naturalHeight,
          x      |-> 2 * naturalWidth * d.x,
          y      |-> 2 * naturalWidth * d.y + (d.height * naturalWidth - d.width * naturalHeight)]

\* embedImageInPage, the border: page.drawRectangle grown by borderWidth
borderBox(box, border) ==
    IF border.enabled
    THEN [den |-> box.den,
          x |-> box.x - border.width * box.den,
          y |-> box.y - border.width * box.den,
          width  |-> box.width + 2 * border.width * box.den,
          height |-> box.height + 2 * border.width * box.den]
    ELSE NoBox

\* embedImageInPage: page.drawImage(image, { x, y, width, height })
drawnImage(box, border) == box

(***************************************************************************)
(* PDFService: errors, pages and the assembling functions                  *)
(***************************************************************************)
\* F(x), with x evaluated once
Once(x, F(_)) == CHOOSE y \in {F(v) : v \in {x}} : TRUE

\* class PDFError(message, fileName?)
PDFError(message, fileName) == [message |-> message, fileName |-> fileName]

NoPDFError == PDFError(<<>>, Undefined)

\* the message of an error thrown by pdf-lib while decoding or loading
LibMessage == <<"<library error>">>

isImage(file) == StartsWith(file.type, ImagePrefix)
isPdf(file)   == file.type = TypePdf

ImagePage(size, items) ==
    [src |-> "img", width |-> size[1], height |-> size[2], items |-> items,
     file |-> "", index |-> 0]

PdfPage(file, k) ==
    [src |-> "pdf", width |-> file.content.pages[k][1], height |-> file.content.pages[k][2],
     items |-> <<>>, file |-> file.id, index |-> k]

\* what pdfDoc.embedJpg / embedPng make of the bytes of the file
decodesAs(file, format) == file.content.kind = format

\* embedImageInPage: the outcome for one file and its slot
embedImageInPage(file, dimensions) ==
    LET jpeg == Includes(file.type, <<"j","p","e","g">>) \/ Includes(file.type, <<"j","p","g">>)
        png  == Includes(file.type, <<"p","n","g">>)
        box  == fitBox(file.content.width, file.content.height, dimensions)
        failed(m) == [ok |-> FALSE, item |-> <<>>,
                      error |-> PDFError(<<"Failed to embed image: ">> \o m, file.name)]
    IN  IF jpeg /\ ~decodesAs(file, "jpeg") THEN failed(LibMessage)
        ELSE IF ~jpeg /\ png /\ ~decodesAs(file, "png") THEN failed(LibMessage)
        ELSE IF ~jpeg /\ ~png
             THEN failed(<<"Unsupported image format: ">> \o file.type)
        ELSE [ok |-> TRUE, error |-> NoPDFError,
              item |-> << [file |-> file.id,
                           rect |-> [x |-> dimensions.x, y |-> dimensions.y,
                                     width |-> dimensions.width, height |-> dimensions.height],
                           border |-> borderBox(box, dimensions.border),
                           box |-> drawnImage(box, dimensions.border)] >>]

RECURSIVE chunkFrom(_, _, _)
chunkFrom(array, size, i) ==
    IF i < Len(array)
    THEN << SubSeq(array, i + 1, Min(i + size, Len(array))) >> \o chunkFrom(array, size, i + size)
    ELSE <<>>

chunkArrayDropTail(array, size) ==
    LET all == chunkFrom(array, size, 0)
    IN  SelectSeq(all, LAMBDA c : Len(c) = size)

\* PDFService.chunkArray
chunkArray(array, size) == chunkFrom(array, size, 0)

\* addImagesToDocument, the inner loop over one group: i is the 0-based slot
RECURSIVE embedGroup(_, _, _, _, _, _)
embedGroup(group, i, size, options, items, log) ==
    IF i >= Len(group) THEN [ok |-> TRUE, items |-> items, log |-> log, error |-> NoPDFError]
    ELSE LET file == group[i + 1]
             r    == slotRect(size[1], size[2], options.margins, options.imagesPerPage, i)
         IN  Once(embedImageInPage(file, [x |-> r.x, y |-> r.y, width |-> r.width,
                                          height |-> r.height, border |-> options.border]),
                  LAMBDA e :
                    IF e.ok
                    THEN embedGroup(group, i + 1, size, options, items \o e.item,
                                    Append(log, file.id))
                    ELSE [ok |-> FALSE, items |-> items, log |-> Append(log, file.id),
                          error |-> e.error])

\* addImagesToDocument, the outer loop: every failure inside a group is
\* rethrown as the one fixed message, without a file name
RECURSIVE addGroups(_, _, _, _, _)
addGroups(groups, g, doc, log, options) ==
    IF g > Len(groups) THEN [ok |-> TRUE, doc |-> doc, log |-> log, error |-> NoPDFError]
    ELSE LET size == pageSize(options.orientation)
         IN  Once(embedGroup(groups[g], 0, size, options, <<>>, log),
                  LAMBDA r :
                    IF r.ok
                    THEN addGroups(groups, g + 1, Append(doc, ImagePage(size, r.items)),
                                   r.log, options)
                    ELSE [ok |-> FALSE, doc |-> doc, log |-> r.log,
                          error |-> PDFError(<<"Only jpg, pdf, png are allowed">>, Undefined)])

\* PDFService.addImagesToDocument
addImagesToDocument(doc, images, options) ==
    addGroups(chunkArray(images, options.imagesPerPage), 1, doc, <<>>, options)

addPDFToPDFSkipBad(doc, file) ==
    IF file.content.kind # "pdf" \/ Len(file.content.pages) = 0
    THEN [ok |-> TRUE, doc |-> doc, error |-> NoPDFError]
    ELSE [ok |-> TRUE, error |-> NoPDFError,
          doc |-> doc \o [k \in 1..Len(file.content.pages) |-> PdfPage(file, k)]]

\* PDFService.addPDFToPDF
addPDFToPDF(doc, file) ==
    IF file.content.kind # "pdf"
    THEN [ok |-> FALSE, doc |-> doc,
          error |-> PDFError(<<"Failed to merge PDF: ">> \o LibMessage, file.name)]
    ELSE IF Len(file.content.pages) = 0
    THEN [ok |-> FALSE, doc |-> doc,
          error |-> PDFError(<<"PDF document has no pages">>, file.name)]
    ELSE [ok |-> TRUE, error |-> NoPDFError,
          doc |-> doc \o [k \in 1..Len(file.content.pages) |-> PdfPage(file, k)]]

\* createPDF: the files.forEach partition, the image side
imagesOf(fs) == SelectSeq(fs, isImage)

pdfsOfReversed(fs) ==
    LET p == SelectSeq(fs, isPdf) IN [i \in 1..Len(p) |-> p[Len(p) + 1 - i]]

\* createPDF: the files.forEach partition, the PDF side
pdfsOf(fs) == SelectSeq(fs, isPdf)

(***************************************************************************)
(* Bounds and the values the model draws                                   *)
(***************************************************************************)
MaxFiles      == 2    \* length of the App's file list
MaxBatch      == 2    \* files in one drop
MaxCalls      == 2    \* createPDF calls in flight
MaxCallFiles  == 3    \* length of a list handed to a call directly
MaxImageFiles == 5    \* length of an image-only list handed to a call

File(id, name, type, size, kind, w, h, pages) ==
    [id |-> id, name |-> name, type |-> type, size |-> size,
     content |-> [kind |-> kind, width |-> w, height |-> h, pages |-> pages]]

Portrait  == <<A4Width, A4Height>>
Landscape == <<A4Height, A4Width>>

FileA == File("A", <<"a",".","j","p","g">>, TypeJpeg, 1024, "jpeg", 4, 3, <<>>)
FileB == File("B", <<"b",".","P","N","G">>, TypePng, 1024, "png", 3, 4, <<>>)
FileX == File("X", <<"x",".","p","n","g">>, TypePng, 1024, "junk", 0, 0, <<>>)
FileG == File("G", <<"g",".","g","i","f">>, TypeGif, 1024, "gif", 1, 1, <<>>)
FileP == File("P", <<"p",".","p","d","f">>, TypePdf, 1024, "pdf", 0, 0, <<Portrait, Landscape>>)
FileQ == File("Q", <<"q",".","p","d","f">>, TypePdf, 1024, "pdf", 0, 0, <<Landscape>>)
FileZ == File("Z", <<"z",".","p","d","f">>, TypePdf, 1024, "pdf", 0, 0, <<>>)
FileY == File("Y", <<"y",".","p","d","f">>, TypePdf, 1024, "junk", 0, 0, <<>>)
FileT == File("T", <<"t",".","p","d","f">>, TypeText, 1024, "junk", 0, 0, <<>>)

\* files a user can drop on the page
DropFiles == {FileA, FileX, FileP, FileT}

\* files a caller can hand to PDFService.createPDF
CallFiles == {FileA, FileB, FileX, FileG, FileP, FileQ, FileZ, FileY, FileT}

SeqsUpTo(S, n) == UNION { [1..k -> S] : k \in 0..n }

Margins(t, r, b, l) == [top |-> t, right |-> r, bottom |-> b, left |-> l]

\* App: the initial layoutOptions
DefaultOptions ==
    [imagesPerPage |-> 1, orientation |-> "portrait",
     margins |-> Margins(Pt(20), Pt(20), Pt(20), Pt(20)),
     border |-> [enabled |-> FALSE, width |-> Pt(1), color |-> "#000000"]]

CallOptions ==
    { [DefaultOptions EXCEPT !.imagesPerPage = k, !.orientation = o, !.border.enabled = e] :
        k \in {1, 2, 4}, o \in {"portrait", "landscape"}, e \in BOOLEAN }

(***************************************************************************)
(* State: the App's React state (files, isProcessing, layoutOptions), the   *)
(* notification the latest step raised (toast), the createPDF calls in     *)
(* flight (calls), the outcome of the latest call, cleared when the next   *)
(* one starts (done), and the argument and result of a function probe      *)
(***************************************************************************)
NoToast == [kind |-> "none", message |-> <<>>]
Toast(kind, message) == [kind |-> kind, message |-> message]

NoBytes == << [src |-> "none", width |-> 0, height |-> 0, items |-> <<>>, file |-> "", index |-> 0] >>

Pending == [status |-> "pending", bytes |-> NoBytes, error |-> NoPDFError]
Resolved(doc) == [status |-> "ok", bytes |-> doc, error |-> NoPDFError]
Rejected(error) == [status |-> "err", bytes |-> NoBytes, error |-> error]

NewCall(origin, fs, options) ==
    [origin |-> origin, files |-> fs, options |-> options, pc |-> "create",
     docCreated |-> FALSE, doc |-> <<>>, images |-> <<>>, pdfs |-> <<>>, next |-> 1,
     log |-> <<>>, result |-> Pending]

NoDone ==
    [origin |-> "none", files |-> <<>>, options |-> DefaultOptions, docCreated |-> FALSE,
     log |-> <<>>, result |-> Pending, downloaded |-> NoBytes]

Completed(call, downloaded) ==
    [origin |-> call.origin, files |-> call.files, options |-> call.options,
     docCreated |-> call.docCreated, log |-> call.log, result |-> call.result,
     downloaded |-> downloaded]

NoProbe == [kind |-> "none"]

RemoveAt(s, i) == [j \in 1..(Len(s) - 1) |-> IF j < i THEN s[j] ELSE s[j + 1]]

Settle(call, result) == [call EXCEPT !.pc = "settled", !.result = result]

(***************************************************************************)
(* PDFService.createPDF, one action per stretch between its awaits         *)
(***************************************************************************)
\* the entry: the empty check, PDFDocument.create() and the partition
createPDFEntry(call, created) ==
    IF Len(call.files) = 0
    THEN Settle(call, Rejected(PDFError(<<"No files provided">>, Undefined)))
    ELSE IF ~created
    THEN Settle(call, Rejected(PDFError(<<"Failed to create PDF document">>, Undefined)))
    ELSE [call EXCEPT !.pc = "images", !.docCreated = TRUE,
                      !.images = imagesOf(call.files), !.pdfs = pdfsOf(call.files)]

SvcEnter ==
    /\ \E c \in DOMAIN calls :
         /\ calls[c].pc = "create"
         /\ \E created \in BOOLEAN :
              calls' = [calls EXCEPT ![c] = createPDFEntry(calls[c], created)]
    /\ toast' = NoToast
    /\ UNCHANGED <<files, isProcessing, layoutOptions, done, probe, answer>>

\* if (images.length > 0) await this.addImagesToDocument(...)
createPDFImages(call) ==
    IF Len(call.images) = 0 THEN [call EXCEPT !.pc = "pdfs"]
    ELSE Once(addImagesToDocument(call.doc, call.images, call.options),
              LAMBDA r : IF r.ok THEN [call EXCEPT !.pc = "pdfs", !.doc = r.doc, !.log = r.log]
                         ELSE Settle([call EXCEPT !.log = r.log], Rejected(r.error)))

SvcImages ==
    /\ \E c \in DOMAIN calls :
         /\ calls[c].pc = "images"
         /\ calls' = [calls EXCEPT ![c] = createPDFImages(calls[c])]
    /\ toast' = NoToast
    /\ UNCHANGED <<files, isProcessing, layoutOptions, done, probe, answer>>

\* one turn of: for (const file of pdfs) await this.addPDFToPDF(pdfDoc, file)
createPDFNextPdf(call) ==
    LET file == call.pdfs[call.next]
        r    == addPDFToPDF(call.doc, file)
        logged == [call EXCEPT !.log = Append(call.log, file.id)]
    IN  IF r.ok THEN [logged EXCEPT !.doc = r.doc, !.next = call.next + 1]
        ELSE Settle(logged, Rejected(r.error))

SvcPdf ==
    /\ \E c \in DOMAIN calls :
         /\ calls[c].pc = "pdfs"
         /\ calls[c].next <= Len(calls[c].pdfs)
         /\ calls' = [calls EXCEPT ![c] = createPDFNextPdf(calls[c])]
    /\ toast' = NoToast
    /\ UNCHANGED <<files, isProcessing, layoutOptions, done, probe, answer>>

\* return await pdfDoc.save(...)
createPDFSave(call, saved) ==
    IF saved THEN Settle(call, Resolved(call.doc))
    ELSE Settle(call, Rejected(PDFError(<<"Failed to save PDF document: ">> \o LibMessage,
                                        Undefined)))

SvcSave ==
    /\ \E c \in DOMAIN calls :
         /\ calls[c].pc = "pdfs"
         /\ calls[c].next > Len(calls[c].pdfs)
         /\ \E saved \in BOOLEAN :
              calls' = [calls EXCEPT ![c] = createPDFSave(calls[c], saved)]
    /\ toast' = NoToast
    /\ UNCHANGED <<files, isProcessing, layoutOptions, done, probe, answer>>

\* a caller other than the App gets the promise settled
DirectReturn ==
    /\ \E c \in DOMAIN calls :
         /\ calls[c].origin = "direct"
         /\ calls[c].pc = "settled"
         /\ done' = Completed(calls[c], NoBytes)
         /\ calls' = RemoveAt(calls, c)
    /\ toast' = NoToast
    /\ UNCHANGED <<files, isProcessing, layoutOptions, probe, answer>>

(***************************************************************************)
(* App: the handlers                                                       *)
(***************************************************************************)
noFilesAddedNever(fs) == FALSE

\* createPDF (App): if (files.length === 0) { toast.error(...); return; }
noFilesAdded(fs) == Len(fs) = 0

\* createPDF (App) up to its await: the call captures the files and the
\* options of the render the handler belongs to
AppCreatePDF ==
    IF noFilesAdded(files)
    THEN /\ toast' = Toast("error", <<"Please add some files first">>)
         /\ UNCHANGED <<files, isProcessing, layoutOptions, calls, done, probe, answer>>
    ELSE /\ isProcessing' = TRUE
         /\ calls' = Append(calls, NewCall("ui", files, layoutOptions))
         /\ toast' = NoToast
         /\ done' = NoDone
         /\ UNCHANGED <<files, layoutOptions, probe, answer>>

mergeTriggerIgnoresProcessing == Len(files) > 0

\* the button: rendered when files.length > 0, disabled={isProcessing}
mergeTriggerEnabled == Len(files) > 0 /\ ~isProcessing

ClickCreate ==
    /\ mergeTriggerEnabled
    /\ Len(calls) < MaxCalls
    /\ AppCreatePDF

resumeCreatePDFKeepFiles(call, fs) ==
    IF call.result.status = "ok"
    THEN [downloaded |-> call.result.bytes, files |-> fs, isProcessing |-> FALSE,
          toast |-> Toast("success", <<"PDF created successfully!">>)]
    ELSE [downloaded |-> NoBytes, files |-> fs, isProcessing |-> FALSE,
          toast |-> Toast("error", call.result.error.message)]

resumeCreatePDFStuck(call, fs) ==
    IF call.result.status = "ok"
    THEN [downloaded |-> call.result.bytes, files |-> <<>>, isProcessing |-> FALSE,
          toast |-> Toast("success", <<"PDF created successfully!">>)]
    ELSE [downloaded |-> NoBytes, files |-> fs, isProcessing |-> TRUE,
          toast |-> Toast("error", call.result.error.message)]

\* createPDF (App) after its await: the try, catch and finally blocks.
\* Every error PDFService.createPDF throws is a PDFError, so the catch
\* block shows error.message.
resumeCreatePDF(call, fs) ==
    IF call.result.status = "ok"
    THEN [downloaded |-> call.result.bytes, files |-> <<>>, isProcessing |-> FALSE,
          toast |-> Toast("success", <<"PDF created successfully!">>)]
    ELSE [downloaded |-> NoBytes, files |-> fs, isProcessing |-> FALSE,
          toast |-> Toast("error", call.result.error.message)]

HandlerResume ==
    /\ \E c \in DOMAIN calls :
         /\ calls[c].origin = "ui"
         /\ calls[c].pc = "settled"
         /\ LET r == resumeCreatePDF(calls[c], files)
            IN  /\ files' = r.files
                /\ isProcessing' = r.isProcessing
                /\ toast' = r.toast
                /\ done' = Completed(calls[c], r.downloaded)
         /\ calls' = RemoveAt(calls, c)
    /\ UNCHANGED <<layoutOptions, probe, answer>>

RECURSIVE firstError(_, _)
firstError(newFiles, i) ==
    IF i > Len(newFiles) THEN NoError
    ELSE IF validateFile(newFiles[i]) # NoError THEN validateFile(newFiles[i])
    ELSE firstError(newFiles, i + 1)

handleFilesDropSkipInvalid(fs, newFiles) ==
    IF Len(newFiles) = 0 THEN [files |-> fs, toast |-> NoToast]
    ELSE IF firstError(newFiles, 1) # NoError
    THEN [files |-> fs \o SelectSeq(newFiles, LAMBDA f : validateFile(f) = NoError),
          toast |-> Toast("error", firstError(newFiles, 1))]
    ELSE [files |-> fs \o newFiles, toast |-> NoToast]

\* handleFilesDrop
handleFilesDrop(fs, newFiles) ==
    IF Len(newFiles) = 0 THEN [files |-> fs, toast |-> NoToast]
    ELSE IF firstError(newFiles, 1) # NoError
    THEN [files |-> fs, toast |-> Toast("error", firstError(newFiles, 1))]
    ELSE [files |-> fs \o newFiles, toast |-> NoToast]

FilesDrop ==
    /\ \E newFiles \in SeqsUpTo(DropFiles, MaxBatch) :
         /\ Len(files) + Len(newFiles) <= MaxFiles
         /\ LET r == handleFilesDrop(files, newFiles)
            IN  files' = r.files /\ toast' = r.toast
    /\ UNCHANGED <<isProcessing, layoutOptions, calls, done, probe, answer>>

\* handleRemoveFile: the remove button of the entry at a 0-based index
handleRemoveFile(fs, index) ==
    SelectSeq([i \in 1..Len(fs) |-> [at |-> i - 1, file |-> fs[i]]], LAMBDA e : e.at # index)

RemoveFile ==
    /\ \E index \in 0..(Len(files) - 1) :
         files' = [i \in 1..(Len(files) - 1) |-> handleRemoveFile(files, index)[i].file]
    /\ toast' = NoToast
    /\ UNCHANGED <<isProcessing, layoutOptions, calls, done, probe, answer>>

(***************************************************************************)
(* ImageLayout: the option edits, offered while the list holds an image.    *)
(* Spec edits the grid and the orientation; margins and border stay at the *)
(* App's defaults there, and SpecCall and SpecLayout draw them as inputs.  *)
(***************************************************************************)
layoutShown == \E i \in 1..Len(files) : isImage(files[i])

ChangeImagesPerPage ==
    /\ layoutShown
    /\ \E k \in {1, 2, 4} : layoutOptions' = [layoutOptions EXCEPT !.imagesPerPage = k]
    /\ toast' = NoToast
    /\ UNCHANGED <<files, isProcessing, calls, done, probe, answer>>

ChangeOrientation ==
    /\ layoutShown
    /\ \E o \in {"portrait", "landscape"} : layoutOptions' = [layoutOptions EXCEPT !.orientation = o]
    /\ toast' = NoToast
    /\ UNCHANGED <<files, isProcessing, calls, done, probe, answer>>

(***************************************************************************)
(* Spec: the page as the user drives it                                    *)
(***************************************************************************)
Init ==
    /\ files = <<>>
    /\ isProcessing = FALSE
    /\ layoutOptions = DefaultOptions
    /\ toast = NoToast
    /\ calls = <<>>
    /\ done = NoDone
    /\ probe = NoProbe
    /\ answer = NoProbe

Next ==
    \/ FilesDrop
    \/ RemoveFile
    \/ ChangeImagesPerPage
    \/ ChangeOrientation
    \/ ClickCreate
    \/ SvcEnter
    \/ SvcImages
    \/ SvcPdf
    \/ SvcSave
    \/ HandlerResume

Spec == Init /\ [][Next]_vars

(***************************************************************************)
(* SpecCall: the two createPDF functions called on drawn arguments, one    *)
(* call at a time                                                          *)
(***************************************************************************)
CallInputs ==
    SeqsUpTo(CallFiles, MaxCallFiles) \cup SeqsUpTo({FileA, FileB}, MaxImageFiles)

InitCall ==
    /\ files \in CallInputs
    /\ layoutOptions \in CallOptions
    /\ isProcessing = FALSE
    /\ toast = NoToast
    /\ calls = <<>>
    /\ done = NoDone
    /\ probe = NoProbe
    /\ answer = NoProbe

\* the App's handler invoked on the state as it is
CallHandler ==
    /\ Len(calls) = 0
    /\ AppCreatePDF

\* PDFService.createPDF(files, options) invoked by a caller of the service
CallService ==
    /\ Len(calls) = 0
    /\ calls' = <<NewCall("direct", files, layoutOptions)>>
    /\ toast' = NoToast
    /\ done' = NoDone
    /\ UNCHANGED <<files, isProcessing, layoutOptions, probe, answer>>

NextCall ==
    \/ CallHandler
    \/ CallService
    \/ SvcEnter
    \/ SvcImages
    \/ SvcPdf
    \/ SvcSave
    \/ HandlerResume
    \/ DirectReturn

SpecCall == InitCall /\ [][NextCall]_vars

(***************************************************************************)
(* SpecValidate: validateFile applied to drawn file metadata               *)
(***************************************************************************)
ValidateNames ==
    { <<"a",".","p","n","g">>, <<"a",".","P","N","G">>, <<"a",".","p","d","f">>,
      <<"a",".","j","p","g">>, <<"a",".","j","p","e","g">>, <<"a",".","j","f","i","f">>,
      <<"a",".","g","i","f">>, <<"a","p","n","g">>, <<"a",".","p","d","f",".","p","n","g">>,
      <<"a",".","p","n","g",".","t","x","t">>, <<"f">> }

ValidateTypes == {TypeJpeg, TypeJpg, TypePng, TypeGif, TypePdf, TypeText}

ValidateSizes == {1024, MAX_FILE_SIZE, MAX_FILE_SIZE + 1}

ValidateFiles ==
    {NullFile} \cup
    { File("V", n, t, z, "junk", 0, 0, <<>>) :
        n \in ValidateNames, t \in ValidateTypes, z \in ValidateSizes }

InitValidate ==
    /\ probe \in { [kind |-> "validate", file |-> f] : f \in ValidateFiles }
    /\ answer = NoProbe
    /\ files = <<>>
    /\ isProcessing = FALSE
    /\ layoutOptions = DefaultOptions
    /\ toast = NoToast
    /\ calls = <<>>
    /\ done = NoDone

Validate ==
    /\ probe.kind = "validate"
    /\ answer = NoProbe
    /\ answer' = [kind |-> "validated", error |-> validateFile(probe.file)]
    /\ UNCHANGED <<files, isProcessing, layoutOptions, toast, calls, done, probe>>

NextValidate == Validate

SpecValidate == InitValidate /\ [][NextValidate]_vars

(***************************************************************************)
(* SpecLayout: the slot rectangles of a page and the fitted box of an      *)
(* image, computed for drawn options, slots and image sizes                *)
(***************************************************************************)
MaxDim  == 4    \* natural width and height of a probed image
MaxSlot == 4    \* width and height of a probed target slot

\* margins in units: 0, 0.5, 20 (the default) and 100 (the largest the UI lets through)
MarginValues == {0, Pt(1) \div 2, Pt(20), Pt(100)}

SlotProbes ==
    { [kind |-> "slots", imagesPerPage |-> k, orientation |-> o, margins |-> Margins(t, r, b, l)] :
        k \in {1, 2, 4}, o \in {"portrait", "landscape"},
        t \in MarginValues, r \in MarginValues, b \in MarginValues, l \in MarginValues }

FitProbes ==
    { [kind |-> "fit",
       file |-> File("I", <<"i",".","p","n","g">>, TypePng, 1024, "png", nw, nh, <<>>),
       dimensions |-> [x |-> x, y |-> y, width |-> w, height |-> h,
                       border |-> [enabled |-> FALSE, width |-> bw, color |-> "#000000"]]] :
        nw \in 1..MaxDim, nh \in 1..MaxDim, w \in 1..MaxSlot, h \in 1..MaxSlot,
        x \in {0, 3}, y \in {0, 5}, bw \in {1, 2} }

InitLayout ==
    /\ probe \in SlotProbes \cup FitProbes
    /\ answer = NoProbe
    /\ files = <<>>
    /\ isProcessing = FALSE
    /\ layoutOptions = DefaultOptions
    /\ toast = NoToast
    /\ calls = <<>>
    /\ done = NoDone

\* the slots of one page, as addImagesToDocument lays out a full group
LayOutSlots ==
    /\ probe.kind = "slots"
    /\ answer = NoProbe
    /\ LET size == pageSize(probe.orientation)
       IN  answer' = [kind |-> "slots", width |-> size[1], height |-> size[2],
                      rects |-> [n \in 1..probe.imagesPerPage |->
                                   slotRect(size[1], size[2], probe.margins,
                                            probe.imagesPerPage, n - 1)]]
    /\ UNCHANGED <<files, isProcessing, layoutOptions, toast, calls, done, probe>>

\* embedImageInPage on the probed image and slot, without and with the border
FitImage ==
    /\ probe.kind = "fit"
    /\ answer = NoProbe
    /\ LET d == probe.dimensions
       IN  answer' = [kind |-> "fit",
                      plain    |-> embedImageInPage(probe.file, d).item[1],
                      bordered |-> embedImageInPage(probe.file,
                                       [d EXCEPT !.border.enabled = TRUE]).item[1]]
    /\ UNCHANGED <<files, isProcessing, layoutOptions, toast, calls, done, probe>>

NextLayout ==
    \/ LayOutSlots
    \/ FitImage

SpecLayout == InitLayout /\ [][NextLayout]_vars

(***************************************************************************)
(* Properties                                                              *)
(***************************************************************************)
Range(q) == { q[i] : i \in DOMAIN q }

Last(q) == q[Len(q)]

RECURSIVE Flatten(_)
Flatten(ss) == IF ss = <<>> THEN <<>> ELSE Head(ss) \o Flatten(Tail(ss))

ImageTypes == {TypeJpeg, TypeJpg, TypePng, TypeGif}

\* the input files of each sort, in input order
ImagesIn(fs) == SelectSeq(fs, LAMBDA f : f.type \in ImageTypes)
PdfsIn(fs)   == SelectSeq(fs, LAMBDA f : f.type = TypePdf)

Ids(fs) == [i \in 1..Len(fs) |-> fs[i].id]

\* the image ids read off the pages, page by page and slot by slot
PlacedIds(pages) ==
    Flatten([p \in 1..Len(pages) |->
               [n \in 1..Len(pages[p].items) |-> pages[p].items[n].file]])

\* the (file, page number) pairs read off the copied pages
CopiedRefs(pages) ==
    Flatten([p \in 1..Len(pages) |->
               IF pages[p].src = "pdf" THEN << <<pages[p].file, pages[p].index>> >> ELSE <<>>])

SourceRefs(fs) ==
    Flatten([i \in 1..Len(fs) |->
               IF fs[i].type = TypePdf
               THEN [k \in 1..Len(fs[i].content.pages) |-> <<fs[i].id, k>>]
               ELSE <<>>])

Succeeded == done.origin # "none" /\ done.result.status = "ok"

\* C1: a successful createPDF on a non-empty list returns first the pages
\* made from the images, holding the images in input order, then every page
\* of every PDF, PDFs in input order and pages in their original order;
\* no PDF page precedes an image page, nothing is skipped or duplicated.
C1_PageOrder ==
    (Succeeded /\ done.files # <<>>) =>
        LET pages == done.result.bytes
        IN  /\ \A p \in 1..Len(pages) : pages[p].src \in {"img", "pdf"}
            /\ \A p, q \in 1..Len(pages) :
                 (p < q) => ~(pages[p].src = "pdf" /\ pages[q].src = "img")
            /\ PlacedIds(pages) = Ids(ImagesIn(done.files))
            /\ CopiedRefs(pages) = SourceRefs(done.files)

C1_Witness ==
    /\ Succeeded
    /\ done.files = <<FileP, FileA, FileQ>>
    /\ Len(done.result.bytes) = 4

\* C2: for n >= 1 images and k images per page a successful call makes
\* ceil(n/k) image pages; page j holds images j*k .. min(n,(j+1)*k)-1 in
\* order, the i-th of them in slot i; every image is placed exactly once.
C2_Chunks ==
    (Succeeded /\ Len(ImagesIn(done.files)) >= 1) =>
        LET imgs  == ImagesIn(done.files)
            n     == Len(imgs)
            k     == done.options.imagesPerPage
            pages == SelectSeq(done.result.bytes, LAMBDA pg : pg.src = "img")
        IN  /\ Len(pages) = (n + k - 1) \div k
            /\ \A j \in 0..(Len(pages) - 1) :
                 LET items == pages[j + 1].items
                 IN  /\ Len(items) = Min(n, (j + 1) * k) - j * k
                     /\ \A i \in 0..(Len(items) - 1) :
                          /\ items[i + 1].file = imgs[j * k + i + 1].id
                          /\ items[i + 1].rect =
                               slotRect(pages[j + 1].width, pages[j + 1].height,
                                        done.options.margins, k, i)
            /\ Len(PlacedIds(done.result.bytes)) = n

C2_Witness ==
    /\ Succeeded
    /\ done.files = <<FileA, FileB, FileA, FileB, FileA>>
    /\ done.options.imagesPerPage = 2
    /\ Len(done.result.bytes) = 3

\* an input file the libraries cannot process
FileFails(f) ==
    \/ f.type \in {TypeJpeg, TypeJpg} /\ f.content.kind # "jpeg"
    \/ f.type = TypePng /\ f.content.kind # "png"
    \/ f.type = TypeGif
    \/ f.type = TypePdf /\ (f.content.kind # "pdf" \/ f.content.pages = <<>>)

\* the order createPDF takes the files in
ProcessingOrder(fs) == ImagesIn(fs) \o PdfsIn(fs)

AllOrNothing(c, downloaded) ==
    LET order == ProcessingOrder(c.files)
        bad   == { i \in 1..Len(order) : FileFails(order[i]) }
        first == CHOOSE i \in bad : \A j \in bad : i <= j
    IN  (bad # {}) =>
            /\ c.result.status # "ok"
            /\ c.result.bytes = NoBytes
            /\ downloaded = NoBytes
            /\ Len(c.log) <= first
            /\ c.log = SubSeq(Ids(order), 1, Len(c.log))

\* C3: when an input file of a call fails, the call, in flight or done, has
\* no output bytes, has processed no file after the first failing one, and
\* the App has downloaded nothing.
C3_AllOrNothing ==
    /\ done.origin # "none" => AllOrNothing(done, done.downloaded)
    /\ \A c \in DOMAIN calls : AllOrNothing(calls[c], NoBytes)

C3_Witness ==
    /\ done.origin = "ui"
    /\ done.files = <<FileP, FileX, FileA>>
    /\ done.result.status = "err"
    /\ done.log = <<"X">>

FileOfId(fs, id) == CHOOSE f \in Range(fs) : f.id = id

ErrorNames(error, f) == error.fileName = f.name \/ Includes(error.message, f.name)

\* C4: when createPDF fails on an input file, the error names that file.
C4_ErrorNamesFile ==
    (done.origin # "none" /\ done.result.status = "err" /\ done.log # <<>>
       /\ FileFails(FileOfId(done.files, Last(done.log))))
    => ErrorNames(done.result.error, FileOfId(done.files, Last(done.log)))

\* the extension of each probed name: the text from its last dot, lower-cased
\* (the last character when the name has no dot)
ExtensionOf(name) ==
    CASE name = <<"a",".","p","n","g">> -> <<".","p","n","g">>
      [] name = <<"a",".","P","N","G">> -> <<".","p","n","g">>
      [] name = <<"a",".","p","d","f">> -> <<".","p","d","f">>
      [] name = <<"a",".","j","p","g">> -> <<".","j","p","g">>
      [] name = <<"a",".","j","p","e","g">> -> <<".","j","p","e","g">>
      [] name = <<"a",".","j","f","i","f">> -> <<".","j","f","i","f">>
      [] name = <<"a",".","g","i","f">> -> <<".","g","i","f">>
      [] name = <<"a","p","n","g">> -> <<"g">>
      [] name = <<"a",".","p","d","f",".","p","n","g">> -> <<".","p","n","g">>
      [] name = <<"a",".","p","n","g",".","t","x","t">> -> <<".","t","x","t">>
      [] name = <<"f">> -> <<"f">>

SupportedTypeSet == {TypeJpeg, TypeJpg, TypePng, TypePdf}

SupportedExtensionSet ==
    { <<".","p","d","f">>, <<".","j","p","g">>, <<".","j","p","e","g">>, <<".","p","n","g">>,
      <<".","j","p","e">>, <<".","j","i","f">>, <<".","j","f","i","f">> }

\* the declared type and the extension name the same format
TypeAgreesWithExtension(type, ext) ==
    \/ type = TypePdf /\ ext = <<".","p","d","f">>
    \/ type = TypePng /\ ext = <<".","p","n","g">>
    \/ type \in {TypeJpeg, TypeJpg}
         /\ ext \in { <<".","j","p","g">>, <<".","j","p","e","g">>, <<".","j","p","e">>,
                      <<".","j","i","f">>, <<".","j","f","i","f">> }

Validated == answer.kind = "validated" /\ probe.file # NullFile /\ probe.file.size <= MAX_FILE_SIZE

\* C5 as stated: a file within the size limit whose declared type and
\* extension do not agree with each other is rejected as not supported.
C5_MismatchRejected ==
    (Validated /\ ~TypeAgreesWithExtension(probe.file.type, ExtensionOf(probe.file.name)))
    => answer.error = MsgNotSupported(probe.file)

\* C5 as amended: a file within the size limit is accepted exactly when its
\* declared type is a supported type and its extension is a supported
\* extension, each checked on its own (whether or not they agree), and is
\* rejected with the not-supported error otherwise.
C5_BothChecks ==
    Validated =>
        LET both == /\ probe.file.type \in SupportedTypeSet
                    /\ ExtensionOf(probe.file.name) \in SupportedExtensionSet
        IN  /\ both => answer.error = NoError
            /\ ~both => answer.error = MsgNotSupported(probe.file)

C5_Witness ==
    /\ answer.kind = "validated"
    /\ probe.file.type = TypePng
    /\ probe.file.name = <<"a",".","p","d","f">>
    /\ probe.file.size = 1024
    /\ answer.error = NoError

PleaseAdd == Toast("error", <<"Please add some files first">>)

NoFilesProvided == PDFError(<<"No files provided">>, Undefined)

\* C6: PDFService.createPDF on an empty list fails with the no-files error
\* before a document is created and returns no bytes; the App's handler on
\* an empty list starts no call, downloads nothing and leaves the
\* processing flag unset.
C6_EmptyList ==
    /\ (done.origin # "none" /\ done.files = <<>>) =>
          /\ done.origin = "direct"
          /\ done.result = Rejected(NoFilesProvided)
          /\ ~done.docCreated
          /\ done.downloaded = NoBytes
    /\ \A c \in DOMAIN calls :
          (calls[c].files = <<>>) =>
              /\ calls[c].origin = "direct"
              /\ ~calls[c].docCreated
              /\ calls[c].result \in {Pending, Rejected(NoFilesProvided)}
    /\ isProcessing => \E c \in DOMAIN calls : calls[c].origin = "ui" /\ calls[c].files # <<>>
    /\ (toast = PleaseAdd) => (files = <<>> /\ ~isProcessing /\ calls = <<>>)

C6_Witness ==
    /\ toast = PleaseAdd
    /\ done.origin = "direct"
    /\ done.files = <<>>
    /\ done.result.status = "err"

\* C7: at most one createPDF call is in flight, and while one is in flight
\* the processing flag that disables the merge trigger is set.
C7_OneMergeInFlight ==
    /\ Len(calls) <= 1
    /\ (calls # <<>>) => isProcessing

C7_Witness ==
    /\ Len(calls) = 1
    /\ calls[1].pc = "pdfs"
    /\ files # <<>>
    /\ files # calls[1].files

Wide(page) == page.width > page.height

\* C8 as stated: every page of a successful output is wider than high
\* exactly when the orientation option is landscape.
C8_AllPagesOriented ==
    Succeeded =>
        \A p \in 1..Len(done.result.bytes) :
            Wide(done.result.bytes[p]) <=> (done.options.orientation = "landscape")

\* C8 as amended: every image-derived page is wider than high exactly when
\* the orientation option is landscape; a page copied from a PDF input keeps
\* the width and height it has in its source.
C8_ImagePagesOriented ==
    Succeeded =>
        \A p \in 1..Len(done.result.bytes) :
            LET page == done.result.bytes[p]
            IN  /\ page.src = "img" =>
                     (Wide(page) <=> (done.options.orientation = "landscape"))
                /\ page.src = "pdf" =>
                     <<page.width, page.height>> =
                         FileOfId(done.files, page.file).content.pages[page.index]

C8_Witness ==
    /\ Succeeded
    /\ done.options.orientation = "landscape"
    /\ done.files = <<FileA, FileP>>
    /\ Wide(done.result.bytes[1])
    /\ ~Wide(done.result.bytes[2])

Overlap(a, b) ==
    /\ a.x < b.x + b.width /\ b.x < a.x + a.width
    /\ a.y < b.y + b.height /\ b.y < a.y + a.height

\* C9: for k in {1,2,4}, both orientations and margins in [0,100] the k slot
\* rectangles are distinct, pairwise non-overlapping, inside the content
\* area, and form a 1x1, 1-column x 2-row or 2x2 grid with slot 0 top-left.
C9_SlotGrid ==
    (answer.kind = "slots") =>
        LET k  == probe.imagesPerPage
            m  == probe.margins
            R  == answer.rects
            xs == { R[n].x : n \in 1..Len(R) }
            ys == { R[n].y : n \in 1..Len(R) }
        IN  /\ Len(R) = k
            /\ \A a, b \in 1..k : (a # b) => (R[a] # R[b] /\ ~Overlap(R[a], R[b]))
            /\ \A a \in 1..k :
                 /\ R[a].width > 0 /\ R[a].height > 0
                 /\ R[a].x >= m.left /\ R[a].x + R[a].width <= answer.width - m.right
                 /\ R[a].y >= m.bottom /\ R[a].y + R[a].height <= answer.height - m.top
            /\ Cardinality(xs) = (IF k = 4 THEN 2 ELSE 1)
            /\ Cardinality(ys) = (IF k = 1 THEN 1 ELSE 2)
            /\ R[1].x = m.left /\ R[1].y + R[1].height = answer.height - m.top
            /\ \A a \in 1..k : R[a].x >= R[1].x /\ R[a].y <= R[1].y
            /\ (k = 2) => R[2].y < R[1].y
            /\ (k = 4) => /\ R[2].x > R[1].x /\ R[2].y = R[1].y
                          /\ R[3].x = R[1].x /\ R[3].y < R[1].y
                          /\ R[4].x = R[2].x /\ R[4].y = R[3].y

C9_Witness ==
    /\ answer.kind = "slots"
    /\ probe.imagesPerPage = 4
    /\ probe.orientation = "landscape"
    /\ probe.margins = Margins(Pt(100), Pt(100), Pt(100), Pt(100))
    /\ Len(answer.rects) = 4

\* C10: the fitted box (x, y, width, height)/den of an image in a slot has
\* the image's aspect ratio, is no wider and no taller than the slot, equals
\* it in one dimension at least, is centered in it, and is the same with
\* the border enabled.
C10_Fit ==
    (answer.kind = "fit") =>
        LET d  == probe.dimensions
            nw == probe.file.content.width
            nh == probe.file.content.height
            b  == answer.plain.box
        IN  /\ b.den > 0
            /\ b.width * nh = b.height * nw
            /\ b.width <= d.width * b.den
            /\ b.height <= d.height * b.den
            /\ b.width = d.width * b.den \/ b.height = d.height * b.den
            /\ b.x - d.x * b.den = (d.x + d.width) * b.den - (b.x + b.width)
            /\ b.y - d.y * b.den = (d.y + d.height) * b.den - (b.y + b.height)
            /\ answer.bordered.box = b
            /\ answer.bordered.border # NoBox

C10_Witness ==
    /\ answer.kind = "fit"
    /\ probe.file.content.width = 4 /\ probe.file.content.height = 3
    /\ probe.dimensions.width = 2 /\ probe.dimensions.height = 4
    /\ answer.plain.box.height * 2 = 3 * answer.plain.box.den
    /\ answer.bordered.border # NoBox

(***************************************************************************)
(* SpecFair: the page with the layout left at the App's defaults, under    *)
(* the scheduling the runtime gives.  Every awaited library promise        *)
(* settles and the event loop runs the continuation of a settled await, so *)
(* the next step of a call in flight is eventually taken; nothing obliges  *)
(* the user to act.                                                        *)
(***************************************************************************)
MergeStep == SvcEnter \/ SvcImages \/ SvcPdf \/ SvcSave \/ HandlerResume

NextFair ==
    \/ FilesDrop
    \/ RemoveFile
    \/ ClickCreate
    \/ SvcEnter
    \/ SvcImages
    \/ SvcPdf
    \/ SvcSave
    \/ HandlerResume

SpecFair == Init /\ [][NextFair]_vars /\ WF_vars(MergeStep)

\* the outcome the App shows for a merge that ended
MergeOutcome ==
    \/ /\ done.result.status = "ok"
       /\ done.downloaded = done.result.bytes
       /\ done.downloaded # NoBytes
    \/ /\ done.result.status = "err"
       /\ done.downloaded = NoBytes
       /\ done.result.error.message # <<>>

MergeEnded == done.origin = "ui" => (MergeOutcome /\ calls = <<>> /\ ~isProcessing)

\* the step in which a merge ends raises the notification of its outcome
MergeNotified ==
    (calls # <<>> /\ calls' = <<>>) =>
        /\ done'.origin = "ui"
        /\ done'.result.status = "ok" =>
             toast' = Toast("success", <<"PDF created successfully!">>)
        /\ done'.result.status = "err" =>
             toast' = Toast("error", done'.result.error.message)

\* C11: every merge started from the page ends; it ends either with the
\* success notification and a download or with an error notification
\* carrying a message and no download; when it has ended no call is in
\* flight (nothing was retried) and the processing flag is false again.
C11_MergeEnds ==
    /\ [](MergeEnded)
    /\ [][MergeNotified]_vars
    /\ ((calls # <<>>) ~> (calls = <<>> /\ done.origin = "ui" /\ ~isProcessing))

C11_Witness ==
    /\ done.origin = "ui"
    /\ done.result.status = "err"
    /\ toast.kind = "error"
    /\ toast.message = <<"Only jpg, pdf, png are allowed">>
    /\ ~isProcessing
    /\ calls = <<>>
    /\ files = done.files

(***************************************************************************)
(* SpecDrop: handleFilesDrop applied to a drawn batch on a drawn list of   *)
(* files that earlier drops accepted                                       *)
(***************************************************************************)
AcceptedLists == SeqsUpTo({ f \in DropFiles : validateFile(f) = NoError }, MaxFiles)

InitDrop ==
    /\ files \in AcceptedLists
    /\ probe \in { [kind |-> "drop", newFiles |-> b] : b \in SeqsUpTo(DropFiles, MaxBatch) }
    /\ answer = NoProbe
    /\ isProcessing = FALSE
    /\ layoutOptions = DefaultOptions
    /\ toast = NoToast
    /\ calls = <<>>
    /\ done = NoDone

\* the drop of the probed batch; answer keeps the list as it was before
DropBatch ==
    /\ probe.kind = "drop"
    /\ answer = NoProbe
    /\ LET r == handleFilesDrop(files, probe.newFiles)
       IN  files' = r.files /\ toast' = r.toast
    /\ answer' = [kind |-> "dropped", before |-> files]
    /\ UNCHANGED <<isProcessing, layoutOptions, calls, done, probe>>

NextDrop == DropBatch

SpecDrop == InitDrop /\ [][NextDrop]_vars

\* a file the validator turns away: too large, or of a type it does not
\* support (every dropped name carries a supported extension)
TurnedAway(f) == f.size > MAX_FILE_SIZE \/ f.type \notin SupportedTypeSet

\* C12: a batch holding a file that fails validation leaves the file list
\* exactly as it was (no file of the batch is added, the earlier files keep
\* their order) and raises the error notification; a batch whose files all
\* validate is appended whole, in order, after the existing files.
C12_DropAllOrNothing ==
    (answer.kind = "dropped") =>
        LET batch == probe.newFiles
            bad   == { i \in 1..Len(batch) : TurnedAway(batch[i]) }
        IN  /\ (bad # {}) => (files = answer.before /\ toast.kind = "error")
            /\ (bad = {}) => (files = answer.before \o batch /\ toast = NoToast)

C12_Witness ==
    /\ answer.kind = "dropped"
    /\ probe.newFiles = <<FileA, FileT>>
    /\ answer.before = <<FileP, FileX>>
    /\ files = <<FileP, FileX>>
    /\ toast = Toast("error", MsgNotSupported(FileT))

\* the step in which a merge ends: the call in flight is gone
MergeEnds == calls # <<>> /\ calls' = <<>>

\* C13: the step that ends a failed merge leaves the file list as it is;
\* the step that ends a successful merge leaves it empty, whatever the list
\* held by then (files dropped or removed while the merge was in flight
\* included).
C13_FilesAfterMerge ==
    [][MergeEnds =>
         /\ done'.result.status = "err" => files' = files
         /\ done'.result.status = "ok" => files' = <<>>
         /\ done'.result.status \in {"ok", "err"}]_vars

\* a successful merge of <<FileA>> about to end while the list has since
\* been given FileP, which the produced document does not hold
C13_Witness ==
    /\ Len(calls) = 1
    /\ calls[1].pc = "settled"
    /\ calls[1].result.status = "ok"
    /\ calls[1].files = <<FileA>>
    /\ files = <<FileA, FileP>>

====
